---- MODULE Spec2Model ----
(***************************************************************************)
(* Streaming chat-completion subsystem of flux-code-cli.                   *)
(*                                                                         *)
(*  - the two stream readers, StandardClient.Stream                        *)
(*    (internal/ai/standard.go) and OpenAIClient.Stream (the older         *)
(*    client the UI is compiled against), each a goroutine that scans the  *)
(*    SSE body line by line and hands events over an unbuffered channel;   *)
(*  - the Bubble Tea bridge of internal/ui/model.go: Model.Update,         *)
(*    sendMessage, waitForNextChunk, finalizeStream.                       *)
(*                                                                         *)
(* Text is a sequence of characters, so that concatenation is real and a   *)
(* reordering or a loss of a fragment changes the result.                  *)
(***************************************************************************)
EXTENDS Naturals, Integers, Sequences, FiniteSets, Bags, TLC

\* ------------------------------------------------------------------ bounds
MaxTurns == 2       \* streams (turns) that can be started
MaxLines == 3       \* body lines of a response in the stream tests
MaxTurnLines == 2   \* body lines of a response to a turn of the bridge
MaxChoices == 2     \* choices in one chunk object
MaxTicks == 1       \* exit-prompt timers pending at a time

Streams == 1..MaxTurns

\* ------------------------------------------------------- program constants
StatusOK == 200                     \* http.StatusOK
Statuses == {200, 201, 404, 429, 500}

\* --------------------------------------------------------------- data model
Fragments == {<< >>, <<"a">>, <<"b">>}

\* one element of standardStreamResponse.Choices / StreamChunk.Choices
Choice == [content : Fragments, finish : BOOLEAN]

ChoiceSeqs == UNION {[1..n -> Choice] : n \in 0..MaxChoices}

\* One line of the response body, as bufio.Scanner hands it to the loop.
\*   k = "blank"  empty or whitespace-only line
\*   k = "other"  a non-blank line that does not start with "data:"
\*   k = "done"   data marker followed by the payload [DONE]
\*   k = "bad"    data marker followed by a payload that is not valid JSON
\*   k = "chunk"  data marker followed by a JSON chunk object
\* sp tells whether the marker is followed by a space ("data: ") or not
\* ("data:"); both are data lines of the SSE format.
Lines ==
    {[k |-> x, sp |-> FALSE, choices |-> << >>] : x \in {"blank", "other"}}
    \cup {[k |-> x, sp |-> b, choices |-> << >>] :
             x \in {"done", "bad"}, b \in BOOLEAN}
    \cup {[k |-> "chunk", sp |-> b, choices |-> c] :
             b \in BOOLEAN, c \in ChoiceSeqs}

\* StreamEvent (internal/ai/types.go) and the older StreamEvent
\* {Content, Done, Error, FinishReason}: cause names the error value.
ChunkEvent(c) == [type |-> "chunk", content |-> c, cause |-> "none"]
DoneEvent == [type |-> "done", content |-> << >>, cause |-> "none"]
ErrorEvent(c) == [type |-> "error", content |-> << >>, cause |-> c]

IsTerminal(e) == e.type \in {"done", "error"}

RECURSIVE ConcatContent(_)
ConcatContent(evs) ==
    IF evs = << >> THEN << >>
    ELSE Head(evs).content \o ConcatContent(Tail(evs))

\* the text a chunk object carries: its fragments f1..fn in order
FrameText(ln) ==
    IF ln.k = "chunk" THEN ConcatContent(ln.choices) ELSE << >>

IsPrefix(p, t) == Len(p) <= Len(t) /\ SubSeq(t, 1, Len(p)) = p

\* ------------------------------------------------------------------ state
VARIABLES
    kind,       \* kind[s]: which client produced stream s
    pc,         \* pc[s]: position of the reader goroutine of stream s
    q,          \* q[s]: events the reader still has to send for the line
                \*       it is processing; Head(q[s]) is offered on the channel
    closed,     \* closed[s]: how often close(out) ran on the channel
    delivered,  \* delivered[s]: events received from the channel, in order
    cancelled,  \* cancelled[s]: the request context has been cancelled
    nscan,      \* nscan[s]: lines the scanner has returned
    srcText,    \* srcText[s]: what the stream tests expect, the
                \*             concatenation of the fragments of all chunk
                \*             objects the server has written so far
    hstate,     \* the consumer of the stream tests: "ranging" over the
                \* channel, "stopped" (gave up receiving) or "drained"
    lastLine,   \* lastLine[s]: the line scanner.Text() returned last to the
                \*              reader of stream s (followed in the frame runs)
    now,        \* time.Now(), in seconds since the program started
    lastCtrlC,  \* m.lastCtrlC
    timers,     \* the deadlines of the pending tea.Tick timers of the exit
                \* prompt, in the order they were started
    messages,   \* messages[s]: the messages argument of the Stream call of
                \*              turn s
    \* ui.Model, the state owned by the interaction loop
    streaming,      \* m.streaming
    streamBuf,      \* m.streamBuf
    streamEvents,   \* m.streamEvents: the stream of the turn, 0 for nil
    cancelFn,       \* m.cancelFn: the stream it cancels, 0 for nil
    err,            \* m.err: cause of the last error, "none" for nil
    history,        \* m.messages.items
    input,          \* m.input.Value()
    showExitPrompt, \* m.showExitPrompt
    quitting,       \* m.quitting: Update returned tea.Quit
    \* the Bubble Tea runtime
    reads,          \* reads[s]: commands of waitForNextChunk blocked
                    \*           in `<-m.streamEvents` on stream s
    inbox,          \* messages returned by commands, not yet passed to
                    \* Update (a bag: commands run concurrently)
    ticks,          \* pending tea.Tick timers of the exit prompt
    \* history variable of the properties, no state of the program
    userCancel,     \* userCancel[s]: Ctrl+C cancelled turn s
    \* the adapter shared by the calls
    config,         \* the adapter: which client it is, and c.config.Model
                    \* (c.model), the configured model name
    setModel,       \* the name a running SetModel is storing, or "none"
    reqModel,       \* reqModel[s]: the Model field of the request of
                    \*              stream s, "none" before it is built
                    \*              (followed for calls sharing an adapter)
    call,           \* the call that is followed: of Complete (the
                    \* response it gets, what it returned), of
                    \* IsRetryable, or of Registry.Build
    constructors,   \* r.constructors of the Registry: provider name to
                    \* constructor; the empty function for a nil map
    sent            \* sent[c]: the HTTP requests call c has passed to
                    \*          c.httpClient.Do, in order

streamVars ==
    <<kind, pc, q, closed, delivered, cancelled, nscan>>

timeVars == <<now, lastCtrlC, timers>>

hvars == <<srcText, hstate, lastLine, timeVars, messages>>

modelVars ==
    <<streaming, streamBuf, streamEvents, cancelFn, err, history, input,
      showExitPrompt, quitting>>

runtimeVars == <<reads, inbox, ticks>>

bridgeVars == <<modelVars, runtimeVars, userCancel>>

adapterVars == <<config, setModel, reqModel, call, constructors, sent>>

vars == <<streamVars, hvars, bridgeVars, adapterVars>>

\* ------------------------------------------------------------ the readers

\* a reader that looks at the first choice only
StandardEventsFirstChoice(ln) ==
    CASE ln.k \in {"blank", "other"} -> << >>
      [] ln.k = "done" -> <<DoneEvent>>
      [] ln.k = "bad" -> <<ErrorEvent("parse")>>
      [] ln.k = "chunk" ->
            IF Len(ln.choices) > 0 /\ ln.choices[1].content # << >>
            THEN <<ChunkEvent(ln.choices[1].content)>>
            ELSE << >>

\* StandardClient.Stream, body of the scanner loop for one line
StandardEvents(ln) ==
    CASE ln.k = "blank" -> << >>
      [] ln.k = "other" -> << >>
      [] ln.k = "done" -> <<DoneEvent>>
      [] ln.k = "bad" -> <<ErrorEvent("parse")>>
      [] ln.k = "chunk" ->
            LET nonEmpty(c) == c.content # << >>
                sel == SelectSeq(ln.choices, nonEmpty)
            IN [i \in 1..Len(sel) |-> ChunkEvent(sel[i].content)]

\* OpenAIClient.Stream, body of the scanner loop for one line
OpenAIEvents(ln) ==
    IF ln.k \in {"blank", "other"} \/ ~ln.sp THEN << >>
    ELSE CASE ln.k = "done" -> <<DoneEvent>>
           [] ln.k = "bad" -> << >>
           [] ln.k = "chunk" ->
                 IF Len(ln.choices) > 0
                 THEN (IF ln.choices[1].content # << >>
                       THEN <<ChunkEvent(ln.choices[1].content)>>
                       ELSE << >>)
                      \o (IF ln.choices[1].finish
                          THEN <<DoneEvent>> ELSE << >>)
                 ELSE << >>

LineEvents(knd, ln) ==
    IF knd = "standard" THEN StandardEvents(ln) ELSE OpenAIEvents(ln)

\* what follows the scanner loop, serr being scanner.Err():
\* "none" (end of body), "read" (transport failure), "canceled"
StandardScanErr(serr) ==
    IF serr # "none" /\ serr # "canceled"
    THEN <<ErrorEvent(serr)>> ELSE << >>

OpenAIScanErr(serr) ==
    IF serr # "none" THEN <<ErrorEvent(serr)>> ELSE << >>

ScanErrEvents(knd, serr) ==
    IF knd = "standard" THEN StandardScanErr(serr) ELSE OpenAIScanErr(serr)

\* the reader has events to send: it is blocked in `out <- ev`
Emit(s, evs) ==
    /\ q' = [q EXCEPT ![s] = evs]
    /\ pc' = [pc EXCEPT ![s] = IF evs = << >> THEN "exit" ELSE "send"]

\* Stream(ctx, req) is called.  StandardClient does the HTTP exchange
\* before it returns: a transport failure returns an error and no source.
\* OpenAIClient returns the channel at once and connects in the goroutine.
StartStream(s, knd) ==
    /\ pc[s] = "idle"
    /\ kind' = [kind EXCEPT ![s] = knd]
    /\ IF knd = "standard"
       THEN \/ /\ ~cancelled[s]
               /\ pc' = [pc EXCEPT ![s] = "status"]
            \/ pc' = [pc EXCEPT ![s] = "nosrc"]
       ELSE pc' = [pc EXCEPT ![s] = "connect"]
    /\ UNCHANGED <<q, closed, delivered, cancelled, nscan>>

\* if resp.StatusCode != http.StatusOK { out <- error; return }
CheckStatus(s, st) ==
    IF st # StatusOK
    THEN Emit(s, <<ErrorEvent("status")>>)
    ELSE /\ pc' = [pc EXCEPT ![s] = "scan"]
         /\ UNCHANGED q

\* OpenAIClient.Stream, inside the goroutine: c.httpClient.Do(req), then
\* the check of resp.StatusCode
ReaderConnect(s) ==
    /\ pc[s] = "connect"
    /\ \/ /\ cancelled[s]
          /\ Emit(s, <<ErrorEvent("canceled")>>)
       \/ /\ ~cancelled[s]
          /\ Emit(s, <<ErrorEvent("connect")>>)
       \/ /\ ~cancelled[s]
          /\ \E st \in Statuses : CheckStatus(s, st)
    /\ UNCHANGED <<kind, closed, delivered, cancelled, nscan>>

\* StandardClient.Stream, first step of the goroutine, on the response
\* Stream got from c.httpClient.Do
ReaderStatus(s) ==
    /\ pc[s] = "status"
    /\ \E st \in Statuses : CheckStatus(s, st)
    /\ UNCHANGED <<kind, closed, delivered, cancelled, nscan>>

\* scanner.Scan() returns the line ln: the loop body runs on it
ReaderScanLine(s, ln) ==
    /\ pc[s] = "scan"
    /\ LET evs == LineEvents(kind[s], ln) IN
          /\ nscan' = [nscan EXCEPT ![s] = @ + 1]
          /\ q' = [q EXCEPT ![s] = evs]
          /\ pc' = [pc EXCEPT ![s] = IF evs = << >> THEN "scan" ELSE "send"]
    /\ UNCHANGED <<kind, closed, delivered, cancelled>>

\* scanner.Scan() returns false: the body ended, the transport failed, or
\* (only once the context is cancelled) the read was aborted
ReaderScanEnd(s) ==
    /\ pc[s] = "scan"
    /\ \E serr \in {"none", "read", "canceled"} :
          /\ serr = "canceled" => cancelled[s]
          /\ Emit(s, ScanErrEvents(kind[s], serr))
    /\ UNCHANGED <<kind, closed, delivered, cancelled, nscan>>

\* a goroutine that returns without closing the channel
ReaderExitNoClose(s) ==
    /\ pc[s] = "exit"
    /\ pc' = [pc EXCEPT ![s] = "exited"]
    /\ UNCHANGED <<kind, q, closed, delivered, cancelled, nscan>>

\* the deferred close(out) runs when the goroutine returns
ReaderExit(s) ==
    /\ pc[s] = "exit"
    /\ closed' = [closed EXCEPT ![s] = @ + 1]
    /\ pc' = [pc EXCEPT ![s] = "exited"]
    /\ UNCHANGED <<kind, q, delivered, cancelled, nscan>>

\* The channel is unbuffered: `out <- ev` completes when a receiver takes
\* the event.  After a terminal event the goroutine returns; after a chunk
\* it goes on with the rest of the line, then with the next Scan.
Handoff(s) ==
    /\ pc[s] = "send"
    /\ delivered' = [delivered EXCEPT ![s] = Append(@, Head(q[s]))]
    /\ q' = [q EXCEPT ![s] = Tail(@)]
    /\ pc' = [pc EXCEPT ![s] =
                 IF IsTerminal(Head(q[s])) THEN "exit"
                 ELSE IF Tail(q[s]) # << >> THEN "send" ELSE "scan"]
    /\ UNCHANGED <<kind, closed, cancelled, nscan>>

\* ctx is cancelled (cancel() of context.WithCancel)
Cancel(s) ==
    /\ cancelled' = [cancelled EXCEPT ![s] = TRUE]

\* the model names of the configuration
Models == {"m1", "m2"}

\* no call of Complete is being made
NoCall == [state |-> "none"]

\* the calls whose requests are followed: the streams, and the one call
\* of Complete
CompleteCall == 0

Calls == Streams \cup {CompleteCall}

\* a URL is a sequence of pieces, "/" being a piece of its own;
\* strings.TrimRight(url, "/")
RECURSIVE TrimRight(_)
TrimRight(u) ==
    IF u # << >> /\ u[Len(u)] = "/" THEN TrimRight(SubSeq(u, 1, Len(u) - 1))
    ELSE u

\* what a constructor returns: a client and a nil error, or nil and an
\* error
Built(c) == [ok |-> TRUE, client |-> c]

NotBuilt(text) ==
    [ok |-> FALSE,
     err |-> [gotype |-> "*errors.errorString", text |-> text]]

\* NewStandardClient(cfg)
NewStandardClient(cfg) ==
    IF cfg.BaseURL = << >> THEN NotBuilt(<<"base URL is required">>)
    ELSE IF cfg.Model = "" THEN NotBuilt(<<"model is required">>)
    ELSE Built([client |-> "standard",
                baseURL |-> TrimRight(cfg.BaseURL),
                apiKey |-> cfg.APIKey,
                authHeader |-> IF cfg.AuthHeader = "" THEN "Authorization"
                               ELSE cfg.AuthHeader,
                authPrefix |-> IF cfg.AuthPrefix = "" THEN "Bearer "
                               ELSE cfg.AuthPrefix,
                model |-> cfg.Model,
                provider |-> IF cfg.Provider = "" THEN "custom"
                             ELSE cfg.Provider])

\* NewOpenAIClient(cfg), cfg being a ProviderConfig
NewOpenAIClient(cfg) ==
    Built([client |-> "openai",
           baseURL |-> IF cfg.BaseURL = << >>
                       THEN <<"https://api.openai.com/v1">> ELSE cfg.BaseURL,
           apiKey |-> cfg.APIKey,
           model |-> cfg.Model,
           provider |-> cfg.Name])

\* the client the calls of the stream, bridge and Complete runs are made on
DefaultAdapter(knd) ==
    IF knd = "standard"
    THEN NewStandardClient([BaseURL |-> <<"http://u">>, APIKey |-> "k",
                            AuthHeader |-> "", AuthPrefix |-> "",
                            Model |-> "m1", Provider |-> ""]).client
    ELSE NewOpenAIClient([Name |-> "openai", APIKey |-> "k",
                          BaseURL |-> <<"http://u">>, Model |-> "m1"]).client

\* applyHeaders, and the header lines of OpenAIClient: req.Header.Set
\* replaces the value a name already has
SetHeader(h, name, value) ==
    [n \in DOMAIN h \cup {name} |-> IF n = name THEN value ELSE h[n]]

\* an applyHeaders that sets the auth header whatever the key
ApplyHeadersAlways(c) ==
    LET h == SetHeader(<< >>, "Content-Type", <<"application/json">>) IN
    IF c.client = "standard"
    THEN SetHeader(h, c.authHeader, <<c.authPrefix, c.apiKey>>)
    ELSE SetHeader(h, "Authorization", <<"Bearer ", c.apiKey>>)

ApplyHeaders(c) ==
    LET h == SetHeader(<< >>, "Content-Type", <<"application/json">>) IN
    IF c.apiKey = "" THEN h
    ELSE IF c.client = "standard"
    THEN SetHeader(h, c.authHeader, <<c.authPrefix, c.apiKey>>)
    ELSE SetHeader(h, "Authorization", <<"Bearer ", c.apiKey>>)

\* a toPayload that always takes the model of the client
PayloadModelOfClient(c, rm) == c.model

\* the model of the payload: toPayload for a request whose Model is rm;
\* OpenAIClient is given messages only and takes c.config.Model
PayloadModel(c, rm) ==
    IF c.client = "standard" /\ rm # "" THEN rm ELSE c.model

\* the request passed to c.httpClient.Do, m being the model of its payload
WireRequest(c, m, stream) ==
    [url |-> c.baseURL \o <<"/chat/completions">>,
     model |-> m,
     stream |-> stream,
     headers |-> ApplyHeaders(c)]

\* a client that sends its request a second time
DoRequestTwice(c, rq) == sent' = [sent EXCEPT ![c] = @ \o <<rq, rq>>]

\* c.httpClient.Do(req) in call c
DoRequest(c, rq) == sent' = [sent EXCEPT ![c] = Append(@, rq)]

\* the adapter after NewOpenAIClient / NewStandardClient, knd telling
\* which of the two it is
AdapterInit(knd) ==
    /\ config = DefaultAdapter(knd)
    /\ setModel = "none"
    /\ reqModel = [s \in Streams |-> "none"]
    /\ call = NoCall
    /\ constructors = << >>
    /\ sent = [c \in Calls |-> << >>]

\* const exitPromptTimeout = 2 * time.Second
ExitPromptTimeout == 2

\* the zero time.Time of a new Model: longer ago than any timeout
ZeroTime == 0 - ExitPromptTimeout

\* no line has been read
NoLine == [k |-> "none", sp |-> FALSE, choices |-> << >>]

\* nothing has been read, no key has been pressed, no turn has been sent
RecordsInit ==
    /\ lastLine = [s \in Streams |-> NoLine]
    /\ now = 0
    /\ lastCtrlC = ZeroTime
    /\ timers = << >>
    /\ messages = [s \in Streams |-> << >>]

StreamInit ==
    /\ kind = [s \in Streams |-> "none"]
    /\ pc = [s \in Streams |-> "idle"]
    /\ q = [s \in Streams |-> << >>]
    /\ closed = [s \in Streams |-> 0]
    /\ delivered = [s \in Streams |-> << >>]
    /\ cancelled = [s \in Streams |-> FALSE]
    /\ nscan = [s \in Streams |-> 0]

\* ------------------------------------------------- the bridge: ui.Model
UserTexts == {<<"u">>}

\* components.Message; turn is not a field of the program: it records the
\* turn whose handling added the entry
Entry(role, content, turn) ==
    [role |-> role, content |-> content, turn |-> turn]

\* the tea.Msg a command of waitForNextChunk returns for what it received;
\* from is not a field of the program: it records the stream read
StreamErrMsg(cause, s) ==
    [type |-> "err", content |-> << >>, cause |-> cause, from |-> s]
StreamDoneMsg(s) ==
    [type |-> "done", content |-> << >>, cause |-> "none", from |-> s]
StreamChunkMsg(c, s) ==
    [type |-> "chunk", content |-> c, cause |-> "none", from |-> s]
NilMsg(s) ==
    [type |-> "nil", content |-> << >>, cause |-> "none", from |-> s]

\* waitForNextChunk, the received event being e (ok = true)
EventMsg(e, s) ==
    IF e.type = "error" THEN StreamErrMsg(e.cause, s)
    ELSE IF e.type = "done" THEN StreamDoneMsg(s)
    ELSE IF e.content # << >> THEN StreamChunkMsg(e.content, s)
    ELSE NilMsg(s)

\* the runtime passes every message but nil on to Update
Post(msg) ==
    inbox' = IF msg.type = "nil" THEN inbox ELSE inbox (+) SetToBag({msg})

Take(msg) == inbox' = inbox (-) SetToBag({msg})

ModelInit ==
    /\ streaming = FALSE
    /\ streamBuf = << >>
    /\ streamEvents = 0
    /\ cancelFn = 0
    /\ err = "none"
    /\ history = << >>
    /\ input = << >>
    /\ showExitPrompt = FALSE
    /\ quitting = FALSE
    /\ reads = [s \in Streams |-> 0]
    /\ inbox = EmptyBag
    /\ ticks = 0
    /\ userCancel = [s \in Streams |-> FALSE]

\* if m.cancelFn != nil { m.cancelFn() }
CallCancelFn ==
    cancelled' = IF cancelFn # 0
                 THEN [cancelled EXCEPT ![cancelFn] = TRUE]
                 ELSE cancelled

\* the command of waitForNextChunk, blocked on stream s, receives
CmdReceive(s) ==
    /\ reads[s] > 0
    /\ \/ /\ Handoff(s)
          /\ Post(EventMsg(Head(q[s]), s))
       \/ /\ closed[s] > 0
          /\ Post(StreamDoneMsg(s))
          /\ UNCHANGED streamVars
    /\ reads' = [reads EXCEPT ![s] = @ - 1]
    /\ UNCHANGED <<modelVars, ticks, userCancel, hvars, adapterVars>>

\* Update, case streamChunkMsg
UpdateChunk ==
    /\ ~quitting
    /\ \E msg \in BagToSet(inbox) :
          /\ msg.type = "chunk"
          /\ Take(msg)
          /\ streamBuf' = streamBuf \o msg.content
    /\ reads' = [reads EXCEPT ![streamEvents] = @ + 1]
    /\ UNCHANGED <<streaming, streamEvents, cancelFn, err, history, input,
                   showExitPrompt, quitting, ticks, userCancel, streamVars,
                   hvars, adapterVars>>

\* a finalizeStream that forgets to reset the buffer
FinalizeStreamKeepBuf(t) ==
    /\ history' = Append(history, Entry("assistant", streamBuf, t))
    /\ streamBuf' = streamBuf
    /\ streaming' = FALSE

\* a finalizeStream that puts the answer in the place of the last entry
FinalizeStreamReplaceLast(t) ==
    /\ history' = Append(SubSeq(history, 1, Len(history) - 1),
                         Entry("assistant", streamBuf, t))
    /\ streamBuf' = << >>
    /\ streaming' = FALSE

\* finalizeStream, on behalf of turn t
FinalizeStream(t) ==
    /\ history' = Append(history, Entry("assistant", streamBuf, t))
    /\ streamBuf' = << >>
    /\ streaming' = FALSE

\* Update, case streamDoneMsg
UpdateDone ==
    /\ ~quitting
    /\ \E msg \in BagToSet(inbox) :
          /\ msg.type = "done"
          /\ Take(msg)
          /\ FinalizeStream(msg.from)
    /\ CallCancelFn
    /\ UNCHANGED <<streamEvents, cancelFn, err, input, showExitPrompt,
                   quitting, reads, ticks, userCancel, hvars, adapterVars>>
    /\ UNCHANGED <<kind, pc, q, closed, delivered, nscan>>

\* Update, case streamErrMsg
UpdateErr ==
    /\ ~quitting
    /\ \E msg \in BagToSet(inbox) :
          /\ msg.type = "err"
          /\ Take(msg)
          /\ err' = msg.cause
          /\ history' = Append(history,
                 Entry("assistant", <<"Error: ", msg.cause>>, msg.from))
    /\ streaming' = FALSE
    /\ CallCancelFn
    /\ UNCHANGED <<streamBuf, streamEvents, cancelFn, input, showExitPrompt,
                   quitting, reads, ticks, userCancel, hvars, adapterVars>>
    /\ UNCHANGED <<kind, pc, q, closed, delivered, nscan>>

\* a ctrl+c case that stops showing the turn without cancelling it
KeyCtrlCNoCancel(within) ==
    /\ ~quitting
    /\ IF streaming
       THEN /\ streaming' = FALSE
            /\ userCancel' = [userCancel EXCEPT ![streamEvents] = TRUE]
            /\ UNCHANGED <<cancelled, showExitPrompt, quitting, ticks>>
       ELSE IF showExitPrompt /\ within
       THEN /\ quitting' = TRUE
            /\ UNCHANGED <<cancelled, streaming, showExitPrompt, ticks,
                           userCancel>>
       ELSE /\ ticks < MaxTicks
            /\ showExitPrompt' = TRUE
            /\ ticks' = ticks + 1
            /\ UNCHANGED <<cancelled, streaming, quitting, userCancel>>
    /\ UNCHANGED <<streamBuf, streamEvents, cancelFn, err, history, input,
                   reads, inbox, hvars, adapterVars>>
    /\ UNCHANGED <<kind, pc, q, closed, delivered, nscan>>

\* Update, case tea.KeyMsg "ctrl+c"; within is the value of
\* now.Sub(m.lastCtrlC) < exitPromptTimeout
KeyCtrlC(within) ==
    /\ ~quitting
    /\ IF streaming
       THEN /\ CallCancelFn
            /\ streaming' = FALSE
            /\ userCancel' = [userCancel EXCEPT ![streamEvents] = TRUE]
            /\ UNCHANGED <<showExitPrompt, quitting, ticks>>
       ELSE IF showExitPrompt /\ within
       THEN /\ quitting' = TRUE
            /\ UNCHANGED <<cancelled, streaming, showExitPrompt, ticks,
                           userCancel>>
       ELSE /\ ticks < MaxTicks
            /\ showExitPrompt' = TRUE
            /\ ticks' = ticks + 1
            /\ UNCHANGED <<cancelled, streaming, quitting, userCancel>>
    /\ UNCHANGED <<streamBuf, streamEvents, cancelFn, err, history, input,
                   reads, inbox, hvars, adapterVars>>
    /\ UNCHANGED <<kind, pc, q, closed, delivered, nscan>>

\* ai.Message
Message(role, content) == [role |-> role, content |-> content]

\* a buildMessageHistory that leaves out a message equal to an earlier one
BuildMessageHistoryDedup(items) ==
    LET first(i) == \A j \in 1..(i - 1) :
                        Message(items[j].role, items[j].content)
                            # Message(items[i].role, items[i].content)
        RECURSIVE build(_)
        build(i) ==
            IF i > Len(items) THEN << >>
            ELSE (IF first(i)
                  THEN <<Message(items[i].role, items[i].content)>>
                  ELSE << >>) \o build(i + 1)
    IN build(1)

\* buildMessageHistory, items being m.messages.Items()
BuildMessageHistory(items) ==
    [i \in 1..Len(items) |-> Message(items[i].role, items[i].content)]

\* sendMessage: the turn gets the next stream, s
SendMessage(s) ==
    /\ history' = Append(history, Entry("user", input, s))
    /\ input' = << >>
    /\ streaming' = TRUE
    /\ streamBuf' = << >>
    /\ cancelFn' = s
    /\ messages' = [messages EXCEPT ![s] = BuildMessageHistory(history')]
    /\ streamEvents' = s
    /\ StartStream(s, "openai")
    /\ reads' = [reads EXCEPT ![s] = @ + 1]

NextStream == CHOOSE s \in Streams : pc[s] = "idle" /\
                  \A t \in Streams : pc[t] = "idle" => s <= t

\* Update, case tea.KeyMsg "enter"
KeyEnter ==
    /\ ~quitting
    /\ IF ~streaming /\ input # << >>
       THEN /\ \E s \in Streams : pc[s] = "idle"
            /\ SendMessage(NextStream)
       ELSE UNCHANGED <<history, input, streaming, streamBuf, cancelFn,
                        messages, streamEvents, reads, streamVars>>
    /\ UNCHANGED <<err, showExitPrompt, quitting, inbox, ticks, userCancel,
                   srcText, hstate, lastLine, timeVars, adapterVars>>

\* Update, any other key: the text area takes it unless a turn is streaming
KeyOther ==
    /\ ~quitting
    /\ showExitPrompt' = FALSE
    /\ IF ~streaming
       THEN \E t \in UserTexts \cup {<< >>} : input' = t
       ELSE UNCHANGED input
    /\ UNCHANGED <<streaming, streamBuf, streamEvents, cancelFn, err, history,
                   quitting, runtimeVars, userCancel, streamVars, hvars, adapterVars>>

\* the timer of tea.Tick(exitPromptTimeout, ...) fires and Update handles
\* its clearExitPromptMsg
UpdateClearExitPrompt ==
    /\ ~quitting
    /\ ticks > 0
    /\ ticks' = ticks - 1
    /\ showExitPrompt' = FALSE
    /\ UNCHANGED <<streaming, streamBuf, streamEvents, cancelFn, err, history,
                   input, quitting, reads, inbox, userCancel, streamVars,
                   hvars, adapterVars>>

\* The server of the bridge runs writes a known text, as the mock server
\* of the tests does: a chunk object has at most one choice, and the
\* fragment of the n-th line is empty, or "a" when n is odd and "b" when n
\* is even.
ServerFragment(n) == IF n % 2 = 1 THEN <<"a">> ELSE <<"b">>

ServerLines(n) ==
    {[k |-> x, sp |-> FALSE, choices |-> << >>] : x \in {"blank", "other"}}
    \cup {[k |-> x, sp |-> b, choices |-> << >>] :
             x \in {"done", "bad", "chunk"}, b \in BOOLEAN}
    \cup {[k |-> "chunk", sp |-> b,
           choices |-> <<[content |-> c, finish |-> f]>>] :
             b \in BOOLEAN, c \in {<< >>, ServerFragment(n)}, f \in BOOLEAN}

\* a step of the reader goroutine of stream s
ReaderOf(s) ==
    /\ \/ ReaderConnect(s)
       \/ /\ nscan[s] < MaxTurnLines
          /\ \E ln \in ServerLines(nscan[s] + 1) : ReaderScanLine(s, ln)
       \/ ReaderScanEnd(s)
       \/ ReaderExit(s)
    /\ UNCHANGED <<hvars, bridgeVars, adapterVars>>

BridgeReader == \E s \in Streams : ReaderOf(s)

BridgeReceive == \E s \in Streams : CmdReceive(s)

BridgeCtrlC == \E within \in BOOLEAN : KeyCtrlC(within)

BridgeInit ==
    /\ StreamInit
    /\ AdapterInit("openai")
    /\ srcText = [s \in Streams |-> << >>]
    /\ hstate = "stopped"
    /\ RecordsInit
    /\ ModelInit

BridgeNext ==
    \/ BridgeReader
    \/ BridgeReceive
    \/ UpdateChunk
    \/ UpdateDone
    \/ UpdateErr
    \/ BridgeCtrlC
    \/ KeyEnter
    \/ KeyOther
    \/ UpdateClearExitPrompt

Spec == BridgeInit /\ [][BridgeNext]_vars

\* Goroutines that can run do run: the readers, the commands blocked in a
\* receive, and the loop, which handles every message it is sent until it
\* quits.  Nothing makes the user press a key.
FairSpec ==
    /\ Spec
    /\ \A s \in Streams : WF_vars(ReaderOf(s)) /\ WF_vars(CmdReceive(s))
    /\ WF_vars(UpdateChunk)
    /\ WF_vars(UpdateDone)
    /\ WF_vars(UpdateErr)

\* ------------------------------------------- a client of Stream: the tests
\* `for event := range events { ... }` of TestStreamingWithMockServer, with
\* a caller that may cancel its context and may stop receiving.
HStream == CHOOSE s \in Streams : \A t \in Streams : s <= t

HarnessStart ==
    /\ StartStream(HStream, config.client)
    /\ UNCHANGED <<hvars, bridgeVars, adapterVars>>

HarnessReceive ==
    /\ hstate = "ranging"
    /\ Handoff(HStream)
    /\ UNCHANGED <<hvars, bridgeVars, adapterVars>>

HarnessSeeClose ==
    /\ hstate = "ranging"
    /\ closed[HStream] > 0
    /\ hstate' = "drained"
    /\ UNCHANGED <<streamVars, srcText, lastLine, timeVars, messages,
                   bridgeVars, adapterVars>>

HarnessStop ==
    /\ hstate = "ranging"
    /\ pc[HStream] # "idle"
    /\ hstate' = "stopped"
    /\ UNCHANGED <<streamVars, srcText, lastLine, timeVars, messages,
                   bridgeVars, adapterVars>>

HarnessCancel ==
    /\ ~cancelled[HStream]
    /\ Cancel(HStream)
    /\ UNCHANGED <<kind, pc, q, closed, delivered, nscan>>
    /\ UNCHANGED <<hvars, bridgeVars, adapterVars>>

HarnessReader ==
    /\ \/ /\ \/ ReaderConnect(HStream)
             \/ ReaderStatus(HStream)
             \/ ReaderScanEnd(HStream)
             \/ ReaderExit(HStream)
          /\ UNCHANGED srcText
       \/ \E ln \in Lines :
             /\ nscan[HStream] < MaxLines
             /\ ReaderScanLine(HStream, ln)
             /\ srcText' = [srcText EXCEPT ![HStream] = @ \o FrameText(ln)]
    /\ UNCHANGED <<hstate, lastLine, timeVars, messages, bridgeVars,
                   adapterVars>>

StreamSpecInit ==
    /\ StreamInit
    /\ \E knd \in {"standard", "openai"} : AdapterInit(knd)
    /\ srcText = [s \in Streams |-> << >>]
    /\ hstate = "ranging"
    /\ RecordsInit
    /\ ModelInit

StreamSpecNext ==
    \/ HarnessStart
    \/ HarnessReader
    \/ HarnessReceive
    \/ HarnessSeeClose
    \/ HarnessStop
    \/ HarnessCancel

StreamSpec == StreamSpecInit /\ [][StreamSpecNext]_vars

\* the reader steps are taken by a running goroutine: the Go scheduler
\* runs a goroutine that is able to run.  Nothing makes the consumer
\* receive, and nothing makes the caller cancel.
FairStreamSpec == StreamSpec /\ WF_vars(HarnessReader)

\* The stream tests with a record of the line read last: what the reader
\* does with a line can be told from the line.
FrameReader ==
    /\ \/ /\ \/ ReaderConnect(HStream)
             \/ ReaderStatus(HStream)
             \/ ReaderScanEnd(HStream)
             \/ ReaderExit(HStream)
          /\ UNCHANGED <<srcText, lastLine>>
       \/ \E ln \in Lines :
             /\ nscan[HStream] < MaxLines
             /\ ReaderScanLine(HStream, ln)
             /\ srcText' = [srcText EXCEPT ![HStream] = @ \o FrameText(ln)]
             /\ lastLine' = [lastLine EXCEPT ![HStream] = ln]
    /\ UNCHANGED <<hstate, timeVars, messages, bridgeVars, adapterVars>>

FrameNext ==
    \/ HarnessStart
    \/ FrameReader
    \/ HarnessReceive
    \/ HarnessSeeClose
    \/ HarnessStop
    \/ HarnessCancel

FrameSpec == StreamSpecInit /\ [][FrameNext]_vars

\* The bridge while the user stays in the conversation: Ctrl+C is pressed
\* only to cancel a streaming turn, so the loop never shows the exit prompt
\* and never quits.
TurnCtrlC == streaming /\ KeyCtrlC(FALSE)

TurnNext ==
    \/ BridgeReader
    \/ BridgeReceive
    \/ UpdateChunk
    \/ UpdateDone
    \/ UpdateErr
    \/ TurnCtrlC
    \/ KeyEnter
    \/ KeyOther

TurnSpec == BridgeInit /\ [][TurnNext]_vars

FairTurnSpec ==
    /\ TurnSpec
    /\ \A s \in Streams : WF_vars(ReaderOf(s)) /\ WF_vars(CmdReceive(s))
    /\ WF_vars(UpdateChunk)
    /\ WF_vars(UpdateDone)
    /\ WF_vars(UpdateErr)

\* ------------------------------------------- the exit prompt and the clock
MaxTime == 3     \* seconds the clock runs
MaxTimers == 2   \* exit-prompt timers pending at a time

\* Update, case tea.KeyMsg "ctrl+c", time.Now() being now
UpdateCtrlC ==
    /\ ~quitting
    /\ IF streaming
       THEN /\ CallCancelFn
            /\ streaming' = FALSE
            /\ userCancel' = [userCancel EXCEPT ![streamEvents] = TRUE]
            /\ UNCHANGED <<showExitPrompt, quitting, lastCtrlC, timers>>
       ELSE IF showExitPrompt /\ now - lastCtrlC < ExitPromptTimeout
       THEN /\ quitting' = TRUE
            /\ UNCHANGED <<cancelled, streaming, showExitPrompt, lastCtrlC,
                           timers, userCancel>>
       ELSE /\ Len(timers) < MaxTimers
            /\ lastCtrlC' = now
            /\ showExitPrompt' = TRUE
            /\ timers' = Append(timers, now + ExitPromptTimeout)
            /\ UNCHANGED <<cancelled, streaming, quitting, userCancel>>
    /\ UNCHANGED <<streamBuf, streamEvents, cancelFn, err, history, input,
                   reads, inbox, ticks, now, srcText, hstate, lastLine,
                   messages, adapterVars>>
    /\ UNCHANGED <<kind, pc, q, closed, delivered, nscan>>

\* the oldest timer of tea.Tick(exitPromptTimeout, ...) is due: the runtime
\* passes its clearExitPromptMsg to Update
TimerFires ==
    /\ ~quitting
    /\ timers # << >>
    /\ Head(timers) <= now
    /\ timers' = Tail(timers)
    /\ showExitPrompt' = FALSE
    /\ UNCHANGED <<streaming, streamBuf, streamEvents, cancelFn, err, history,
                   input, quitting, runtimeVars, userCancel, streamVars,
                   srcText, hstate, lastLine, now, lastCtrlC, messages,
                   adapterVars>>

\* a second passes; a timer that is due fires before the next second
TimePasses ==
    /\ now < MaxTime
    /\ IF timers = << >> THEN TRUE ELSE Head(timers) > now
    /\ now' = now + 1
    /\ UNCHANGED <<streamVars, srcText, hstate, lastLine, lastCtrlC, timers,
                   messages, bridgeVars, adapterVars>>

\* the user sends one message while the clock is followed
PromptEnter == pc[HStream] = "idle" /\ KeyEnter

PromptNext ==
    \/ BridgeReader
    \/ BridgeReceive
    \/ UpdateChunk
    \/ UpdateDone
    \/ UpdateErr
    \/ UpdateCtrlC
    \/ PromptEnter
    \/ KeyOther
    \/ TimerFires
    \/ TimePasses

PromptSpec == BridgeInit /\ [][PromptNext]_vars

\* ------------------------------------ calls of Stream sharing an adapter
\* Several Stream calls run at once on one client, each with a consumer
\* that receives whenever an event is offered and a caller that may cancel
\* its context; on an OpenAIClient, SetModel may be called meanwhile.

\* what a read of c.config.Model yields: SetModel stores the string
\* without synchronisation, so that a read during the store sees the old
\* name, the new one, or a mix of both
ReadModel ==
    IF setModel = "none" THEN {config.model}
    ELSE {config.model, setModel, "torn"}

\* SetModel(model) starts storing the name
SetModelBegin(m) ==
    /\ config.client = "openai"
    /\ setModel = "none"
    /\ setModel' = m
    /\ UNCHANGED <<config, reqModel, call, constructors, sent, streamVars,
                   hvars, bridgeVars>>

\* the store of SetModel completes
SetModelEnd ==
    /\ setModel # "none"
    /\ config' = [config EXCEPT !.model = setModel]
    /\ setModel' = "none"
    /\ UNCHANGED <<reqModel, call, constructors, sent, streamVars, hvars,
                   bridgeVars>>

\* Stream is called: StandardClient builds the request before it returns
SharedStart(s) ==
    /\ StartStream(s, config.client)
    /\ IF config.client = "standard"
       THEN /\ reqModel' = [reqModel EXCEPT ![s] = config.model]
            /\ DoRequest(s, WireRequest(config, config.model, TRUE))
       ELSE UNCHANGED <<reqModel, sent>>
    /\ UNCHANGED <<config, setModel, call, constructors, hvars, bridgeVars>>

\* a step of the reader goroutine of stream s: OpenAIClient builds the
\* request in the goroutine
SharedReader(s) ==
    /\ \/ /\ ReaderConnect(s)
          /\ \E m \in ReadModel :
                /\ reqModel' = [reqModel EXCEPT ![s] = m]
                /\ DoRequest(s, WireRequest(config, m, TRUE))
       \/ /\ \/ ReaderStatus(s)
             \/ /\ nscan[s] < MaxTurnLines
                /\ \E ln \in ServerLines(nscan[s] + 1) : ReaderScanLine(s, ln)
             \/ ReaderScanEnd(s)
             \/ ReaderExit(s)
          /\ UNCHANGED <<reqModel, sent>>
    /\ UNCHANGED <<config, setModel, call, constructors, hvars, bridgeVars>>

SharedReceive(s) ==
    /\ Handoff(s)
    /\ UNCHANGED <<hvars, bridgeVars, adapterVars>>

SharedCancel(s) ==
    /\ ~cancelled[s]
    /\ Cancel(s)
    /\ UNCHANGED <<kind, pc, q, closed, delivered, nscan>>
    /\ UNCHANGED <<hvars, bridgeVars, adapterVars>>

SharedInit ==
    /\ StreamInit
    /\ \E knd \in {"standard", "openai"} : AdapterInit(knd)
    /\ srcText = [s \in Streams |-> << >>]
    /\ hstate = "stopped"
    /\ RecordsInit
    /\ ModelInit

SharedNext ==
    \/ \E s \in Streams : SharedStart(s)
    \/ \E s \in Streams : SharedReader(s)
    \/ \E s \in Streams : SharedReceive(s)
    \/ \E s \in Streams : SharedCancel(s)
    \/ \E m \in Models : SetModelBegin(m)
    \/ SetModelEnd

SharedSpec == SharedInit /\ [][SharedNext]_vars

\* ---------------------------------------------------- calls of Complete
MaxRespChoices == 3   \* choices in the body of a response to Complete

\* the body of a response: it parses into the response shape or not, and
\* holds the message contents of its choices
Bodies ==
    {[parses |-> FALSE, choices |-> << >>]}
    \cup {[parses |-> TRUE, choices |-> cs] :
             cs \in UNION {[1..n -> Fragments] : n \in 0..MaxRespChoices}}

\* what c.httpClient.Do gives: a response, or a failure of the transport
\* or of the cancelled context
Responses ==
    {[transport |-> "ok", status |-> st, body |-> b] :
         st \in Statuses, b \in Bodies}
    \cup {[transport |-> t, status |-> 0,
           body |-> [parses |-> FALSE, choices |-> << >>]] :
             t \in {"fail", "canceled"}}

\* Go error values: the dynamic type, and the text or fields
NoError == [gotype |-> "nil"]

ErrorString(text) == [gotype |-> "*errors.errorString", text |-> text]

\* httpError / fmt.Errorf("API error %d: %s", resp.StatusCode, body)
HTTPError(knd, st) ==
    ErrorString(<<IF knd = "standard" THEN "api error: status "
                  ELSE "API error ", st>>)

NoChoicesError(knd) ==
    ErrorString(<<IF knd = "standard" THEN "no choices returned"
                  ELSE "no choices in response">>)

Failed(e) == [content |-> << >>, err |-> e]

\* a Complete that returns the content of the last choice
CompleteLastChoice(knd, r) ==
    IF r.transport # "ok"
    THEN Failed([gotype |-> "*url.Error", text |-> <<r.transport>>])
    ELSE IF r.status # StatusOK THEN Failed(HTTPError(knd, r.status))
    ELSE IF ~r.body.parses
    THEN Failed([gotype |-> "*json.SyntaxError", text |-> << >>])
    ELSE IF Len(r.body.choices) = 0 THEN Failed(NoChoicesError(knd))
    ELSE [content |-> r.body.choices[Len(r.body.choices)], err |-> NoError]

\* a Complete that takes a body without choices for an empty answer
CompleteEmptyAnswer(knd, r) ==
    IF r.transport # "ok"
    THEN Failed([gotype |-> "*url.Error", text |-> <<r.transport>>])
    ELSE IF r.status # StatusOK THEN Failed(HTTPError(knd, r.status))
    ELSE IF ~r.body.parses
    THEN Failed([gotype |-> "*json.SyntaxError", text |-> << >>])
    ELSE IF Len(r.body.choices) = 0 THEN [content |-> << >>, err |-> NoError]
    ELSE [content |-> r.body.choices[1], err |-> NoError]

\* StandardClient.Complete and OpenAIClient.Complete, r being what
\* c.httpClient.Do gives
Complete(knd, r) ==
    IF r.transport # "ok"
    THEN Failed([gotype |-> "*url.Error", text |-> <<r.transport>>])
    ELSE IF r.status # StatusOK THEN Failed(HTTPError(knd, r.status))
    ELSE IF ~r.body.parses
    THEN Failed([gotype |-> "*json.SyntaxError", text |-> << >>])
    ELSE IF Len(r.body.choices) = 0 THEN Failed(NoChoicesError(knd))
    ELSE [content |-> r.body.choices[1], err |-> NoError]

\* IsRetryable: a switch on the dynamic type of the error
IsRetryable(e) ==
    IF e.gotype = "nil" THEN FALSE
    ELSE CASE e.gotype = "APIError" ->
                  e.StatusCode >= 500 \/ e.StatusCode = 429
           [] e.gotype = "RateLimitError" -> TRUE
           [] OTHER -> FALSE

\* Complete is called on some client, and gets some response
CompleteInit ==
    /\ StreamInit
    /\ srcText = [s \in Streams |-> << >>]
    /\ hstate = "stopped"
    /\ RecordsInit
    /\ ModelInit
    /\ setModel = "none"
    /\ reqModel = [s \in Streams |-> "none"]
    /\ constructors = << >>
    /\ sent = [c \in Calls |-> << >>]
    /\ \E knd \in {"standard", "openai"}, r \in Responses :
          /\ config = DefaultAdapter(knd)
          /\ call = [state |-> "called", resp |-> r, out |-> Failed(NoError),
                     retry |-> FALSE]

\* Complete returns
CompleteReturn ==
    /\ call.state = "called"
    /\ call' = [call EXCEPT !.state = "returned",
                            !.out = Complete(config.client, call.resp)]
    /\ DoRequest(CompleteCall, WireRequest(config, config.model, FALSE))
    /\ UNCHANGED <<config, setModel, reqModel, constructors, streamVars,
                   hvars, bridgeVars>>

\* the caller asks IsRetryable about the error it got
CallerClassifies ==
    /\ call.state = "returned"
    /\ call' = [call EXCEPT !.state = "classified",
                            !.retry = IsRetryable(call.out.err)]
    /\ UNCHANGED <<config, setModel, reqModel, constructors, sent,
                   streamVars, hvars, bridgeVars>>

CompleteNext ==
    \/ CompleteReturn
    \/ CallerClassifies

CompleteSpec == CompleteInit /\ [][CompleteNext]_vars

\* -------------------------------------------------- calls of IsRetryable
\* the status codes an APIError is given
ErrorStatuses == {0, 200, 404, 429, 430, 499, 500, 503, 599, 600, 700}

\* IsRetryableHTTP(status)
IsRetryableHTTP(st) == st = 429 \/ (st >= 500 /\ st <= 599)

\* the error values IsRetryable is asked about
GoErrors ==
    {NoError}
    \cup {[gotype |-> "APIError", StatusCode |-> st, Message |-> m,
           Provider |-> p] :
             st \in ErrorStatuses, m \in {"", "x"}, p \in {"openai", "ollama"}}
    \cup {[gotype |-> "RateLimitError", RetryAfter |-> n] : n \in 0..2}
    \cup {HTTPError(knd, st) :
             knd \in {"standard", "openai"}, st \in ErrorStatuses}
    \cup {NoChoicesError(knd) : knd \in {"standard", "openai"}}
    \cup {[gotype |-> "*url.Error", text |-> <<"fail">>],
          [gotype |-> "*json.SyntaxError", text |-> << >>]}

\* a caller holds some error value
ClassifyInit ==
    /\ StreamInit
    /\ srcText = [s \in Streams |-> << >>]
    /\ hstate = "stopped"
    /\ RecordsInit
    /\ ModelInit
    /\ config = DefaultAdapter("openai")
    /\ setModel = "none"
    /\ reqModel = [s \in Streams |-> "none"]
    /\ constructors = << >>
    /\ sent = [c \in Calls |-> << >>]
    /\ \E e \in GoErrors :
          call = [state |-> "returned", resp |-> [transport |-> "none"],
                  out |-> Failed(e), retry |-> FALSE]

ClassifyNext == CallerClassifies

ClassifySpec == ClassifyInit /\ [][ClassifyNext]_vars

\* --------------------------------------------- building and using clients
MaxRegister == 1   \* entries of the table Register has changed

\* provider names: those NewRegistry knows, and one it does not
CtorNames == {"custom", "openai", "ollama", "openrouter"}

ProviderNames == CtorNames \cup {"acme"}

\* config.Provider records
ProviderRecords ==
    [APIKey : {"", "k"},
     BaseURL : {<< >>, <<"http://u">>, <<"http://u", "/">>},
     Model : {"", "m1"},
     AuthHeader : {"", "X-Api-Key"},
     AuthPrefix : {"", "Token "}]

\* the *config.Config passed to Build for the name n: nil, or a Config
\* whose Providers has a record for n or has none
ConfigsFor(n) ==
    {[nil |-> TRUE, Providers |-> << >>], [nil |-> FALSE, Providers |-> << >>]}
    \cup {[nil |-> FALSE, Providers |-> [m \in {n} |-> p]] :
             p \in ProviderRecords}

\* the constructors of NewRegistry, named by the key they are stored under
Constructor(id, p) ==
    CASE id = "custom" ->
            NewStandardClient([BaseURL |-> p.BaseURL, APIKey |-> p.APIKey,
                               AuthHeader |-> "", AuthPrefix |-> "",
                               Model |-> p.Model, Provider |-> "custom"])
      [] id = "openai" ->
            NewStandardClient([BaseURL |-> p.BaseURL, APIKey |-> p.APIKey,
                               AuthHeader |-> "", AuthPrefix |-> "",
                               Model |-> p.Model, Provider |-> "openai"])
      [] id = "ollama" ->
            NewStandardClient(
                [BaseURL |-> IF p.BaseURL = << >>
                             THEN <<"http://localhost:11434/v1">>
                             ELSE p.BaseURL,
                 APIKey |-> p.APIKey,
                 AuthHeader |-> "", AuthPrefix |-> "",
                 Model |-> p.Model, Provider |-> "ollama"])
      [] id = "openrouter" ->
            NewStandardClient([BaseURL |-> <<"https://openrouter.ai/api/v1">>,
                               APIKey |-> p.APIKey,
                               AuthHeader |-> "", AuthPrefix |-> "",
                               Model |-> p.Model, Provider |-> "openrouter"])

\* NewRegistry(): r.constructors
NewRegistry == [n \in CtorNames |-> n]

\* a Build without the fallback to "custom"
BuildNoFallback(table, name, cfg) ==
    IF cfg.nil THEN NotBuilt(<<"config is nil">>)
    ELSE IF name \notin DOMAIN cfg.Providers
    THEN NotBuilt(<<"provider not found in config", name>>)
    ELSE IF name \notin DOMAIN table
    THEN NotBuilt(<<"provider has no constructor", name>>)
    ELSE Constructor(table[name], cfg.Providers[name])

\* a Build that always finds a generic constructor
BuildGenericAlways(table, name, cfg) ==
    IF cfg.nil THEN NotBuilt(<<"config is nil">>)
    ELSE IF name \notin DOMAIN cfg.Providers
    THEN NotBuilt(<<"provider not found in config", name>>)
    ELSE IF name \notin DOMAIN table
    THEN Constructor("custom", cfg.Providers[name])
    ELSE Constructor(table[name], cfg.Providers[name])

\* Registry.Build(providerName, cfg, hc), table being r.constructors
Build(table, name, cfg) ==
    IF cfg.nil THEN NotBuilt(<<"config is nil">>)
    ELSE IF name \notin DOMAIN cfg.Providers
    THEN NotBuilt(<<"provider not found in config", name>>)
    ELSE IF name \notin DOMAIN table
    THEN IF "custom" \in DOMAIN table
         THEN Constructor(table["custom"], cfg.Providers[name])
         ELSE NotBuilt(<<"provider has no constructor", name>>)
    ELSE Constructor(table[name], cfg.Providers[name])

\* no client has been constructed yet
NoAdapter == [client |-> "none"]

\* the call has returned out
Constructed(out) ==
    /\ call' = [call EXCEPT !.state = IF out.ok THEN "built" ELSE "failed",
                            !.out = out,
                            !.table = constructors]
    /\ config' = IF out.ok THEN out.client ELSE config

\* Registry.Register(name, ctor): an assignment to a map, which panics
\* when the map is nil
RegistryRegister(n, id) ==
    /\ call.via = "registry"
    /\ call.state # "panicked"
    /\ Cardinality({m \in DOMAIN constructors :
                       \/ m \notin DOMAIN NewRegistry
                       \/ constructors[m] # NewRegistry[m]}) < MaxRegister
    /\ IF DOMAIN constructors = {}
       THEN /\ call' = [call EXCEPT !.state = "panicked"]
            /\ UNCHANGED constructors
       ELSE /\ constructors' =
                  [m \in DOMAIN constructors \cup {n} |->
                      IF m = n THEN id ELSE constructors[m]]
            /\ UNCHANGED call
    /\ UNCHANGED <<config, setModel, reqModel, sent, streamVars, hvars,
                   bridgeVars>>

\* r.Build(name, cfg, hc) is called and returns
RegistryBuild ==
    /\ call.via = "registry"
    /\ call.state = "start"
    /\ Constructed(Build(constructors, call.name, call.cfg))
    /\ UNCHANGED <<setModel, reqModel, constructors, sent, streamVars, hvars,
                   bridgeVars>>

\* app.Run: ai.NewClient(ai.ProviderConfig{...}) on the provider record
AppNewClient ==
    /\ call.via = "newclient"
    /\ call.state = "start"
    /\ LET p == call.cfg.Providers[call.name] IN
          Constructed(NewOpenAIClient([Name |-> call.name, APIKey |-> p.APIKey,
                                       BaseURL |-> p.BaseURL,
                                       Model |-> p.Model]))
    /\ UNCHANGED <<setModel, reqModel, constructors, sent, streamVars, hvars,
                   bridgeVars>>

\* NewStandardClient called with every field of the record
DirectNewStandardClient ==
    /\ call.via = "standard"
    /\ call.state = "start"
    /\ LET p == call.cfg.Providers[call.name] IN
          Constructed(NewStandardClient(
              [BaseURL |-> p.BaseURL, APIKey |-> p.APIKey,
               AuthHeader |-> p.AuthHeader, AuthPrefix |-> p.AuthPrefix,
               Model |-> p.Model, Provider |-> call.name]))
    /\ UNCHANGED <<setModel, reqModel, constructors, sent, streamVars, hvars,
                   bridgeVars>>

\* Complete (stream = FALSE) or Stream (stream = TRUE) is called on the
\* client that was built, for a request whose Model is rm, and passes its
\* request to the transport
AdapterSend(rm, stream) ==
    /\ call.state = "built"
    /\ config.client = "openai" => rm = ""
    /\ call' = [call EXCEPT !.state = "used",
                            !.req = [model |-> rm, stream |-> stream]]
    /\ DoRequest(CompleteCall,
                 WireRequest(config, PayloadModel(config, rm), stream))
    /\ UNCHANGED <<config, setModel, reqModel, constructors, streamVars,
                   hvars, bridgeVars>>

\* the call that is followed, before it is made
StartCall(via, n, cfg) ==
    [state |-> "start", via |-> via, name |-> n, cfg |-> cfg,
     out |-> NotBuilt(<< >>), table |-> << >>,
     req |-> [model |-> "", stream |-> FALSE]]

ProviderInit ==
    /\ StreamInit
    /\ srcText = [s \in Streams |-> << >>]
    /\ hstate = "stopped"
    /\ RecordsInit
    /\ ModelInit
    /\ config = NoAdapter
    /\ setModel = "none"
    /\ reqModel = [s \in Streams |-> "none"]
    /\ sent = [c \in Calls |-> << >>]
    /\ \/ /\ constructors \in {NewRegistry, << >>}
          /\ \E n \in ProviderNames : \E cfg \in ConfigsFor(n) :
                call = StartCall("registry", n, cfg)
       \/ /\ constructors = << >>
          /\ \E via \in {"newclient", "standard"} :
             \E n \in {"openai", "acme"} : \E p \in ProviderRecords :
                call = StartCall(via, n,
                                 [nil |-> FALSE, Providers |-> [m \in {n} |-> p]])

ProviderNext ==
    \/ \E n \in ProviderNames, id \in CtorNames : RegistryRegister(n, id)
    \/ RegistryBuild
    \/ AppNewClient
    \/ DirectNewStandardClient
    \/ \E rm \in {"", "m2"}, stream \in BOOLEAN : AdapterSend(rm, stream)

ProviderSpec == ProviderInit /\ [][ProviderNext]_vars

\* ------------------------------------------------------------------ properties
Last(sq) == sq[Len(sq)]

HasSource(s) == pc[s] \notin {"idle", "nosrc"}

Running(s) == pc[s] \in {"connect", "status", "scan", "send", "exit"}

\* C1: for every Stream request whose connection succeeded and whose
\* context was not cancelled, the delivered events are chunk events
\* followed by exactly one terminal event: every event but the last is a
\* chunk, and once the source is closed the last one is done or error.
C1_ChunksThenOneTerminal ==
    \A s \in Streams :
        HasSource(s) /\ ~cancelled[s] =>
            /\ \A i \in 1..(Len(delivered[s]) - 1) :
                  delivered[s][i].type = "chunk"
            /\ closed[s] > 0 =>
                  /\ delivered[s] # << >>
                  /\ IsTerminal(Last(delivered[s]))

\* C2: the source is closed by the reader goroutine, exactly once, when it
\* exits, and only after every event it emitted (the terminal one
\* included) has been delivered; no other step closes it.
C2_ClosedOnceByReaderAfterTerminal ==
    /\ [](\A s \in Streams :
            /\ closed[s] <= 1
            /\ (pc[s] = "exited") <=> (closed[s] = 1)
            /\ closed[s] = 1 => q[s] = << >>)
    /\ [][\A s \in Streams :
            closed'[s] # closed[s] =>
                /\ pc[s] = "exit"
                /\ pc'[s] = "exited"
                /\ q[s] = << >>
                /\ hstate' = hstate]_vars

C2_Witness ==
    \E s \in Streams :
        /\ closed[s] = 1
        /\ delivered[s] # << >>
        /\ IsTerminal(Last(delivered[s]))
        /\ Len(delivered[s]) >= 2

C6_CancelIsNotAnError ==
    \A s \in Streams :
        \A i \in 1..Len(delivered[s]) :
            ~(delivered[s][i].type = "error"
              /\ delivered[s][i].cause = "canceled")

\* C8: once the context of a running reader is cancelled, the reader
\* eventually returns and closes the source, whatever the consumer does.
C8_CancelledReaderCloses ==
    \A s \in Streams :
        (cancelled[s] /\ Running(s)) ~> (closed[s] = 1)

\* the text of the chunk events of a sequence of events
ChunkText(evs) ==
    LET isChunk(e) == e.type = "chunk" IN ConcatContent(SelectSeq(evs, isChunk))

\* turn s has been finalized: by Ctrl+C, or by a terminal message of its
\* source that added its record to history
Finalized(s) ==
    \/ userCancel[s]
    \/ \E i \in 1..Len(history) :
          history[i].turn = s /\ history[i].role = "assistant"

\* the step handles the message msg
Handles(msg) == ~quitting /\ inbox' = inbox (-) SetToBag({msg})

\* C3: a turn is finalized once: the terminal message of a turn that has
\* already been finalized, and a Ctrl+C cancelling a turn that has already
\* been finalized, change neither history, buffer nor streaming state.
C3_FinalizeOnce ==
    [][/\ \A msg \in BagToSet(inbox) :
             /\ msg.type \in {"done", "err"}
             /\ Handles(msg)
             /\ Finalized(msg.from)
             => UNCHANGED <<history, streamBuf, streaming>>
       /\ \A s \in Streams :
             userCancel'[s] # userCancel[s] /\ Finalized(s)
             => UNCHANGED <<history, streamBuf, streaming>>]_vars

\* C4: the buffer is the concatenation of a prefix of the fragments the
\* reader of the current turn has emitted.
C4_BufferIsPrefixOfTurn ==
    IF streamEvents = 0 THEN streamBuf = << >>
    ELSE IsPrefix(streamBuf, ChunkText(delivered[streamEvents]))

\* C7: a turn the user cancelled and of which no chunk has arrived (so
\* that the cancellation came before any chunk) gets no assistant text and
\* no error record in history, and its source delivers no error event.
C7_EarlyCancelIsSilent ==
    \A s \in Streams :
        userCancel[s] /\ ChunkText(delivered[s]) = << >> =>
            /\ \A i \in 1..Len(delivered[s]) : delivered[s][i].type # "error"
            /\ \A i \in 1..Len(history) :
                  ~(history[i].turn = s /\ history[i].role = "assistant")

\* C9: when the loop has quit, every reader that was started has been
\* cancelled, and every such reader eventually exits.
C9_QuitLeavesNoReader ==
    /\ [](quitting => \A s \in Streams : HasSource(s) => cancelled[s])
    /\ \A s \in Streams : (quitting /\ HasSource(s)) ~> (pc[s] = "exited")

\* C10: handling a done message while streaming appends one assistant
\* message holding the whole buffer at the end of history, leaves the
\* earlier entries as they are, empties the buffer and ends streaming.
C10_DoneFlushesBuffer ==
    [][\A msg \in BagToSet(inbox) :
          msg.type = "done" /\ Handles(msg) /\ streaming =>
              /\ Len(history') = Len(history) + 1
              /\ SubSeq(history', 1, Len(history)) = history
              /\ Last(history').role = "assistant"
              /\ Last(history').content = streamBuf
              /\ streamBuf' = << >>
              /\ ~streaming']_vars

C10_Witness ==
    /\ ~streaming
    /\ streamBuf = << >>
    /\ Len(history) = 2
    /\ Last(history).role = "assistant"
    /\ Last(history).content = <<"a", "b">>
    /\ delivered[1] # << >>
    /\ Last(delivered[1]).type = "done"

\* an entry of history added by the handling of an error message
IsErrorRecord(e) ==
    e.role = "assistant" /\ Len(e.content) = 2 /\ e.content[1] = "Error: "

\* an entry of history added by finalizeStream
IsAssistantTurn(e) == e.role = "assistant" /\ ~IsErrorRecord(e)

\* C11: handling an error message appends exactly one error record at the
\* end of history, leaves the earlier entries as they are and ends
\* streaming; and no turn that has an error record also has an assistant
\* turn committed from its buffer.
C11_ErrorAbortsTurn ==
    /\ [][\A msg \in BagToSet(inbox) :
             msg.type = "err" /\ Handles(msg) =>
                 /\ Len(history') = Len(history) + 1
                 /\ SubSeq(history', 1, Len(history)) = history
                 /\ IsErrorRecord(Last(history'))
                 /\ ~streaming']_vars
    /\ [](\A i, j \in 1..Len(history) :
             ~(/\ IsErrorRecord(history[i])
               /\ IsAssistantTurn(history[j])
               /\ history[i].turn = history[j].turn))

\* C12: whenever no turn is streaming, the stored cancellation handle is
\* empty.
C12_HandleClearedWhenIdle == ~streaming => cancelFn = 0

\* C13: handling a message that comes from the source of an earlier turn
\* than the current one changes neither the buffer, the history, the event
\* source nor the cancellation handle.
C13_StaleEventsChangeNothing ==
    [][\A msg \in BagToSet(inbox) :
          Handles(msg) /\ msg.from # streamEvents =>
              UNCHANGED <<streamBuf, history, streamEvents, cancelFn>>]_vars

\* C14: at most one next-event read is pending on the source of a turn.
C14_SingleConsumer == \A s \in Streams : reads[s] <= 1

\* turn s has a visible record in history
HasRecord(s) ==
    \E i \in 1..Len(history) :
        history[i].turn = s /\ history[i].role = "assistant"

\* C16: every turn that was started eventually has a record in history
\* (assistant turn or error record); until then a next-event read is
\* pending on its source, or a message of its source is on its way to the
\* loop.
C16_TurnEventuallyRecorded ==
    /\ \A s \in Streams : HasSource(s) ~> HasRecord(s)
    /\ [](\A s \in Streams :
            HasSource(s) /\ ~HasRecord(s) =>
                \/ reads[s] > 0
                \/ \E msg \in BagToSet(inbox) : msg.from = s)

\* all there is to stream s
StreamState(s) ==
    <<kind[s], pc[s], q[s], closed[s], delivered[s], cancelled[s], nscan[s]>>

\* C15: with several Stream calls running on one adapter, a step of one
\* stream (its cancellation included) changes nothing of another stream,
\* and no step changes the configuration of the adapter.
C15_StreamsIndependentConfigFixed ==
    /\ [][\A s, t \in Streams :
             s # t /\ StreamState(s)' # StreamState(s) =>
                 StreamState(t)' = StreamState(t)]_vars
    /\ [][config' = config]_vars

\* Complete has returned from an exchange that gave a response
Returned == call.state \in {"returned", "classified"}

GotResponse == Returned /\ call.resp.transport = "ok"

\* the error carries the HTTP status st
IsStatusError(e, st) ==
    /\ e.gotype = "*errors.errorString"
    /\ Len(e.text) = 2
    /\ e.text[2] = st

\* C17: Complete on a response with status 200 whose body parses and holds
\* at least one choice returns the message content of the first choice,
\* as it is, and no error.
C17_CompleteReturnsFirstChoice ==
    /\ GotResponse
    /\ call.resp.status = StatusOK
    /\ call.resp.body.parses
    /\ Len(call.resp.body.choices) >= 1
    => /\ call.out.content = call.resp.body.choices[1]
       /\ call.out.err = NoError

C17_Witness ==
    /\ GotResponse
    /\ call.resp.status = StatusOK
    /\ call.resp.body.choices = << <<"a">>, <<"b">>, << >> >>
    /\ call.out.content = <<"a">>

\* C18: Complete returns an error carrying the status exactly when the
\* status of the response is outside 200..299, and on every status in
\* 200..299 with a body that parses and holds a choice it returns the
\* content and no error.
C18_StatusErrorIffNot2xx ==
    GotResponse =>
        /\ IsStatusError(call.out.err, call.resp.status)
              <=> call.resp.status \notin 200..299
        /\ /\ call.resp.status \in 200..299
           /\ call.resp.body.parses
           /\ Len(call.resp.body.choices) >= 1
           => /\ call.out.content = call.resp.body.choices[1]
              /\ call.out.err = NoError

\* C19: Complete on a response with status 200 whose body parses and holds
\* no choice returns the no-choices error and no content.
C19_NoChoicesIsAnError ==
    /\ GotResponse
    /\ call.resp.status = StatusOK
    /\ call.resp.body.parses
    /\ Len(call.resp.body.choices) = 0
    => /\ call.out.err \in {NoChoicesError("standard"),
                            NoChoicesError("openai")}
       /\ call.out.content = << >>

C19_Witness ==
    /\ GotResponse
    /\ call.resp.status = StatusOK
    /\ call.resp.body.parses
    /\ call.resp.body.choices = << >>
    /\ call.out.err # NoError

\* C20: the error Complete produced for a response of failing status s
\* carries s, and IsRetryable says of it: true when s is 429 or in
\* 500..599, false otherwise.
C20_RetryableByStatus ==
    /\ call.state = "classified"
    /\ call.resp.transport = "ok"
    /\ call.resp.status # StatusOK
    => /\ IsStatusError(call.out.err, call.resp.status)
       /\ call.retry <=> \/ call.resp.status = 429
                         \/ call.resp.status \in 500..599

\* C21: IsRetryable says true of an error exactly when the error is an
\* APIError whose status is 429 or lies in 500..599.
C21_RetryableIffProtocol429Or5xx ==
    call.state = "classified" /\ call.resp.transport = "none" =>
        (call.retry <=>
            /\ call.out.err.gotype = "APIError"
            /\ IsRetryableHTTP(call.out.err.StatusCode))

BuiltFromRecord ==
    /\ call.state \in {"built", "failed", "used"}
    /\ call.via = "registry"
    /\ ~call.cfg.nil
    /\ call.name \in DOMAIN call.cfg.Providers

\* the record of the name of the call
Rec == call.cfg.Providers[call.name]

\* C23: Build for a name that has a record but no constructor, the table
\* having the generic constructor NewRegistry stores under "custom",
\* returns a client with the record's base URL, model and API key (the
\* record having a base URL and a model).
C23_UnknownNameUsesGeneric ==
    /\ BuiltFromRecord
    /\ call.name \notin DOMAIN call.table
    /\ "custom" \in DOMAIN call.table
    /\ call.table["custom"] = "custom"
    /\ Rec.BaseURL # << >>
    /\ Rec.Model # ""
    => /\ call.out.ok
       /\ call.out.client.baseURL = TrimRight(Rec.BaseURL)
       /\ call.out.client.model = Rec.Model
       /\ call.out.client.apiKey = Rec.APIKey
       /\ call.out.client.provider = "custom"

C23_Witness ==
    /\ BuiltFromRecord
    /\ call.name = "acme"
    /\ call.table = NewRegistry
    /\ Rec.BaseURL = <<"http://u", "/">>
    /\ Rec.APIKey = "k"
    /\ call.out.ok
    /\ call.out.client.baseURL = <<"http://u">>

\* C24: Build, given a configuration, for a name that has no constructor
\* in a table without generic constructor returns no client and an error
\* that names the provider.
C24_NoConstructorIsAnError ==
    /\ call.state \in {"built", "failed", "used"}
    /\ call.via = "registry"
    /\ ~call.cfg.nil
    /\ call.name \notin DOMAIN call.table
    /\ "custom" \notin DOMAIN call.table
    => /\ ~call.out.ok
       /\ call.state = "failed"
       /\ Len(call.out.err.text) = 2
       /\ call.out.err.text[2] = call.name

C24_Witness ==
    /\ BuiltFromRecord
    /\ call.name = "acme"
    /\ call.table = << >>
    /\ call.state = "failed"
    /\ call.out.err.text = <<"provider has no constructor", "acme">>

\* C25: the table of a Registry never changes.
C25_TableNeverChanges == [][constructors' = constructors]_vars

\* C26: Build for openai, ollama or openrouter, with the constructor
\* NewRegistry gives it, returns a client whose base URL is the one of the
\* record when the record has one.
C26_ExplicitBaseURLWins ==
    /\ BuiltFromRecord
    /\ call.name \in {"openai", "ollama", "openrouter"}
    /\ call.name \in DOMAIN call.table
    /\ call.table[call.name] = call.name
    /\ Rec.BaseURL # << >>
    /\ call.out.ok
    => call.out.client.baseURL = TrimRight(Rec.BaseURL)

\* the one request of the call that was made on the client
TheRequest == sent[CompleteCall][1]

\* C27: the request of a client carries the auth header exactly when the
\* API key of the client is not empty; the header has the name the client
\* was configured with and the value prefix + key, Authorization and
\* "Bearer " where none was configured.
C27_AuthHeaderIffKey ==
    call.state = "used" =>
        LET name == IF config.client = "standard" THEN config.authHeader
                    ELSE "Authorization"
            prefix == IF config.client = "standard" THEN config.authPrefix
                      ELSE "Bearer "
        IN /\ config.apiKey = "" =>
                 DOMAIN TheRequest.headers = {"Content-Type"}
           /\ config.apiKey # "" =>
                 /\ DOMAIN TheRequest.headers = {"Content-Type", name}
                 /\ TheRequest.headers[name] = <<prefix, config.apiKey>>
           /\ call.via = "standard" =>
                 /\ name = IF Rec.AuthHeader = "" THEN "Authorization"
                           ELSE Rec.AuthHeader
                 /\ prefix = IF Rec.AuthPrefix = "" THEN "Bearer "
                             ELSE Rec.AuthPrefix

C27_Witness ==
    /\ call.state = "used"
    /\ call.via = "standard"
    /\ Rec.AuthHeader = "X-Api-Key"
    /\ Rec.AuthPrefix = "Token "
    /\ TheRequest.headers["X-Api-Key"] = <<"Token ", "k">>

\* C28: the request of a client Build returned for a record with an API
\* key carries the key under the record's auth_header with the record's
\* auth_prefix, the default standing in for an empty one.
C28_BuildPassesAuthSettings ==
    /\ BuiltFromRecord
    /\ call.state = "used"
    /\ Rec.APIKey # ""
    => LET name == IF Rec.AuthHeader = "" THEN "Authorization"
                   ELSE Rec.AuthHeader
           prefix == IF Rec.AuthPrefix = "" THEN "Bearer "
                     ELSE Rec.AuthPrefix
       IN /\ name \in DOMAIN TheRequest.headers
          /\ TheRequest.headers[name] = <<prefix, Rec.APIKey>>

\* C29: the model of the payload of a request is the Model of the request
\* when that is not empty, and the model of the client otherwise.
C29_RequestModelOrDefault ==
    call.state = "used" =>
        TheRequest.model = IF call.req.model # "" THEN call.req.model
                           ELSE config.model

C29_Witness ==
    /\ call.state = "used"
    /\ call.req.model = "m2"
    /\ config.model = "m1"
    /\ TheRequest.model = "m2"

\* C30: a call that failed to build a client has sent no request, and a
\* client that sends a request has a base URL and a model.
C30_ConfigErrorsBeforeRequests ==
    /\ call.state \in {"start", "failed"} => sent[CompleteCall] = << >>
    /\ call.state = "used" =>
          /\ config.baseURL # << >>
          /\ config.model # ""

\* ------------------------------------- the two readers on one response
\* the bodies a server writes: up to MaxTurnLines lines
RECURSIVE BodiesOfLen(_)
BodiesOfLen(n) ==
    IF n = 0 THEN {<< >>}
    ELSE {Append(b, ln) : b \in BodiesOfLen(n - 1), ln \in ServerLines(n)}

\* a response to a Stream request: the status, the lines of the body, and
\* whether the body ends ("none") or the transport fails after them
StreamResponses ==
    {[status |-> st, lines |-> ls, serr |-> e] :
        st \in Statuses,
        ls \in UNION {BodiesOfLen(n) : n \in 0..MaxTurnLines},
        e \in {"none", "read"}}

\* StandardClient.Stream and OpenAIClient.Stream have been called and both
\* get the same response: the first stream is read by the one, the others
\* by the other
PairInit ==
    /\ kind = [s \in Streams |->
                  IF s = HStream THEN "standard" ELSE "openai"]
    /\ pc = [s \in Streams |-> IF s = HStream THEN "status" ELSE "connect"]
    /\ q = [s \in Streams |-> << >>]
    /\ closed = [s \in Streams |-> 0]
    /\ delivered = [s \in Streams |-> << >>]
    /\ cancelled = [s \in Streams |-> FALSE]
    /\ nscan = [s \in Streams |-> 0]
    /\ srcText = [s \in Streams |-> << >>]
    /\ hstate = "stopped"
    /\ RecordsInit
    /\ ModelInit
    /\ config = DefaultAdapter("openai")
    /\ setModel = "none"
    /\ reqModel = [s \in Streams |-> "none"]
    /\ constructors = << >>
    /\ sent = [c \in Calls |-> << >>]
    /\ \E r \in StreamResponses : call = [state |-> "streaming", resp |-> r]

\* the check of resp.StatusCode
PairStatus(s) ==
    /\ pc[s] \in {"status", "connect"}
    /\ CheckStatus(s, call.resp.status)
    /\ UNCHANGED <<kind, closed, delivered, cancelled, nscan>>

\* scanner.Scan() returns the next line of the body
PairScanLine(s) ==
    /\ nscan[s] < Len(call.resp.lines)
    /\ ReaderScanLine(s, call.resp.lines[nscan[s] + 1])

\* scanner.Scan() returns false after the last line
PairScanEnd(s) ==
    /\ pc[s] = "scan"
    /\ nscan[s] = Len(call.resp.lines)
    /\ Emit(s, ScanErrEvents(kind[s], call.resp.serr))
    /\ UNCHANGED <<kind, closed, delivered, cancelled, nscan>>

PairReader(s) ==
    /\ \/ PairStatus(s)
       \/ PairScanLine(s)
       \/ PairScanEnd(s)
       \/ ReaderExit(s)
    /\ UNCHANGED <<hvars, bridgeVars, adapterVars>>

PairNext ==
    \/ \E s \in Streams : PairReader(s)
    \/ \E s \in Streams : SharedReceive(s)

PairSpec == PairInit /\ [][PairNext]_vars

\* ---------------------------------------------------- calls of BlameRange
MaxBlameLines == 3   \* lines of the blamed file

\* full.Lines of a file of n lines
BlameLines(n) == [i \in 1..n |-> [LineNumber |-> i]]

\* a slice expression s[lo:hi] on a slice whose capacity is its length:
\* it panics unless 0 <= lo <= hi <= cap(s)
SliceExpr(s, lo, hi) ==
    IF 0 <= lo /\ lo <= hi /\ hi <= Len(s)
    THEN [panicked |-> FALSE, Lines |-> SubSeq(s, lo + 1, hi)]
    ELSE [panicked |-> TRUE, Lines |-> << >>]

\* Repo.BlameRange, lines being the Lines of the result of r.Blame(file)
BlameRange(lines, startLine, endLine) ==
    LET st == IF startLine < 1 THEN 1 ELSE startLine
        en == IF endLine > Len(lines) THEN Len(lines) ELSE endLine
    IN SliceExpr(lines, st - 1, en)

\* executeBlame calls BlameRange with the numbers of its arguments
BlameInit ==
    /\ StreamInit
    /\ srcText = [s \in Streams |-> << >>]
    /\ hstate = "stopped"
    /\ RecordsInit
    /\ ModelInit
    /\ config = DefaultAdapter("openai")
    /\ setModel = "none"
    /\ reqModel = [s \in Streams |-> "none"]
    /\ constructors = << >>
    /\ sent = [c \in Calls |-> << >>]
    /\ \E n \in 0..MaxBlameLines,
          a \in (0 - 2)..(MaxBlameLines + 2),
          b \in (0 - 2)..(MaxBlameLines + 2) :
          call = [state |-> "called", lines |-> BlameLines(n),
                  startLine |-> a, endLine |-> b,
                  out |-> [panicked |-> FALSE, Lines |-> << >>]]

\* BlameRange returns, or the slice expression panics
BlameRangeReturn ==
    /\ call.state = "called"
    /\ call' = [call EXCEPT
                   !.state = "returned",
                   !.out = BlameRange(call.lines, call.startLine,
                                      call.endLine)]
    /\ UNCHANGED <<config, setModel, reqModel, constructors, sent,
                   streamVars, hvars, bridgeVars>>

BlameNext == BlameRangeReturn

BlameSpec == BlameInit /\ [][BlameNext]_vars

\* the reader of stream s took the line it read last for a data frame:
\* StandardClient looks for "data:", OpenAIClient for "data: "
ReadDataFrame(s) ==
    /\ lastLine[s].k \in {"done", "bad", "chunk"}
    /\ kind[s] = "standard" \/ lastLine[s].sp

IsError(e) == e.type = "error"

IsChunk(e) == e.type = "chunk"

\* C31: a reader that has read a data frame whose payload does not parse
\* reads no further line; it has exactly one error event to deliver, the
\* parse error, which is the last event of the stream.
C31_MalformedFrameIsFatal ==
    \A s \in Streams :
        (ReadDataFrame(s) /\ lastLine[s].k = "bad")
        => LET all == delivered[s] \o q[s] IN
              /\ pc[s] \in {"send", "exit", "exited"}
              /\ all # << >>
              /\ Last(all) = ErrorEvent("parse")
              /\ Len(SelectSeq(all, IsError)) = 1

\* the chunk events a chunk object asks for: one for each choice whose
\* fragment is not empty, in the order of the choices
FragmentEvents(ln) ==
    LET RECURSIVE ev(_)
        ev(i) == IF i > Len(ln.choices) THEN << >>
                 ELSE (IF ln.choices[i].content = << >> THEN << >>
                       ELSE <<ChunkEvent(ln.choices[i].content)>>)
                      \o ev(i + 1)
    IN ev(1)

\* C35: for a data frame it parsed as a chunk object, the reader has one
\* chunk event to send for each choice whose fragment is not empty, with
\* that fragment as content, in the order of the choices, and none with
\* empty content.
C35_OneChunkPerNonEmptyChoice ==
    [][\A s \in Streams :
          (/\ nscan'[s] = nscan[s] + 1
           /\ ReadDataFrame(s)'
           /\ lastLine'[s].k = "chunk")
          => /\ SelectSeq(q'[s], IsChunk) = FragmentEvents(lastLine'[s])
             /\ \A i \in DOMAIN q'[s] :
                   IsChunk(q'[s][i]) => q'[s][i].content # << >>]_vars

\* C32: the loop quits only in handling a Ctrl+C that finds the exit
\* prompt showing, no turn streaming, and less than the exit timeout gone
\* since the previous Ctrl+C; a Ctrl+C that finds no prompt and no turn
\* streaming does not quit, shows the prompt and starts its timer; the
\* handling of any other key leaves the prompt hidden; no step taken while
\* a turn is streaming quits.
C32_QuitOnlyOnSecondCtrlC ==
    [][/\ (quitting' /\ ~quitting)
          => /\ UpdateCtrlC
             /\ showExitPrompt
             /\ ~streaming
             /\ now - lastCtrlC < ExitPromptTimeout
       /\ (UpdateCtrlC /\ ~showExitPrompt /\ ~streaming)
          => /\ ~quitting'
             /\ showExitPrompt'
             /\ timers' = Append(timers, now + ExitPromptTimeout)
       /\ (KeyEnter \/ KeyOther) => ~showExitPrompt'
       /\ streaming => ~quitting']_vars

\* C38: a timer message handled while the exit prompt is showing and less
\* than the exit timeout after the Ctrl+C that raised it leaves the prompt
\* showing, so that a Ctrl+C pressed then, with no turn streaming, quits.
C38_StaleTimerKeepsPrompt ==
    [][/\ (/\ TimerFires
           /\ showExitPrompt
           /\ now - lastCtrlC < ExitPromptTimeout) => showExitPrompt'
       /\ (/\ UpdateCtrlC
           /\ ~streaming
           /\ showExitPrompt
           /\ now - lastCtrlC < ExitPromptTimeout) => quitting']_vars

\* C33: the handling of a Ctrl+C that finds a turn streaming cancels the
\* context of that turn, does not quit, leaves the exit prompt and its
\* timers as they are, and leaves history as it is.
C33_CtrlCWhileStreamingCancels ==
    [][(streaming /\ BridgeCtrlC)
       => /\ cancelled'[streamEvents]
          /\ ~streaming'
          /\ ~quitting'
          /\ showExitPrompt' = showExitPrompt
          /\ ticks' = ticks
          /\ history' = history]_vars

C33_Witness ==
    \E s \in Streams :
        /\ userCancel[s]
        /\ cancelled[s]
        /\ history # << >>
        /\ ~quitting

\* C34: the messages passed to Stream when a turn starts are the entries
\* history had, each with its role and content, in their order, followed
\* by the user message with the submitted text: none left out, none
\* dropped for being equal to another.
C34_SentMessagesAreHistory ==
    [][\A s \in Streams :
          (pc[s] = "idle" /\ pc'[s] # "idle")
          => messages'[s] =
                [i \in 1..Len(history) |->
                    [role |-> history[i].role, content |-> history[i].content]]
                \o <<[role |-> "user", content |-> input]>>]_vars

C34_Witness ==
    \E s \in Streams :
        /\ Len(messages[s]) >= 3
        /\ messages[s][1] = Last(messages[s])
        /\ Last(messages[s]).role = "user"

\* C40: every step leaves the entries history had in their places,
\* unchanged, and the handling of a chunk message leaves history as it is.
C40_HistoryAppendOnly ==
    [][/\ IsPrefix(history, history')
       /\ UpdateChunk => history' = history]_vars

C40_Witness ==
    /\ Len(history) >= 3
    /\ streamBuf # << >>
    /\ \E i \in DOMAIN history : IsErrorRecord(history[i])

\* C36: IsRetryable says of an APIError what IsRetryableHTTP says of its
\* status.
C36_RetryableAgreesWithHTTP ==
    (call.state = "classified" /\ call.out.err.gotype = "APIError")
    => (call.retry <=> IsRetryableHTTP(call.out.err.StatusCode))

\* the contents of the chunk events of evs, in order
ChunkContents(evs) ==
    LET c == SelectSeq(evs, IsChunk) IN [i \in 1..Len(c) |-> c[i].content]

\* the kind of the terminal event of evs, "none" if it has none
TerminalKind(evs) ==
    IF evs # << >> /\ IsTerminal(Last(evs)) THEN Last(evs).type ELSE "none"

\* C37: when the readers of StandardClient and of OpenAIClient have both
\* read the same response to the end, with consumers that took every
\* event, they have delivered the same chunk contents in the same order
\* and a terminal event of the same kind.
C37_ReadersAgree ==
    \A s, u \in Streams :
        (pc[s] = "exited" /\ pc[u] = "exited")
        => /\ ChunkContents(delivered[s]) = ChunkContents(delivered[u])
           /\ TerminalKind(delivered[s]) = TerminalKind(delivered[u])

MaxOf(a, b) == IF a >= b THEN a ELSE b

MinOf(a, b) == IF a <= b THEN a ELSE b

\* C39: BlameRange returns, without a panic, the lines numbered from
\* max(startLine, 1) to min(endLine, n), none when there is no such line.
C39_BlameRangeClamps ==
    call.state = "returned"
    => /\ ~call.out.panicked
       /\ call.out.Lines =
              SubSeq(call.lines, MaxOf(call.startLine, 1),
                     MinOf(call.endLine, Len(call.lines)))
====
